---- MODULE Spec2Model ----
(***************************************************************************)
(* Model of init_duckdb.py: the PostgreSQL -> DuckDB schema converter.      *)
(*                                                                         *)
(* SQL text is a sequence of atoms (strings).  An atom is an indivisible    *)
(* piece of text: one whitespace character, one punctuation mark, a        *)
(* keyword, or a chunk of an identifier.  An identifier made of several    *)
(* chunks (<<"a_", "id">> is a_id) is a run of word atoms, so a regular      *)
(* expression that is not anchored at a word boundary can match a suffix   *)
(* of it, as Python's re does.                                              *)
(***************************************************************************)
EXTENDS Integers, Sequences, FiniteSets, TLC

\* ------------------------------------------------------------------ bounds
MaxCols == 2
MaxStmts == 2
MaxRows == 2
MaxLead == 1

\* --------------------------------------------------------------- lexical
WS == {" ", "\n", "\t"}
Punct == {";", "(", ")", ",", ".", "'", "[", "]", "---"}

IsWs(a) == a \in WS
IsWord(a) == a \notin (WS \cup Punct)

RECURSIVE LStrip(_)
LStrip(s) == IF s # <<>> /\ IsWs(Head(s)) THEN LStrip(Tail(s)) ELSE s

RECURSIVE RStrip(_)
RStrip(s) ==
  IF s # <<>> /\ IsWs(s[Len(s)]) THEN RStrip(SubSeq(s, 1, Len(s) - 1)) ELSE s

\* str.strip()
Strip(s) == RStrip(LStrip(s))

MinOf(S) == CHOOSE i \in S : \A j \in S : i <= j

MatchAt(s, i, pat) ==
  /\ i >= 1
  /\ i + Len(pat) - 1 <= Len(s)
  /\ SubSeq(s, i, i + Len(pat) - 1) = pat

\* "pat in s"
Contains(s, pat) == \E i \in 1..Len(s) : MatchAt(s, i, pat)

\* str.replace(pat, rep) and re.sub of a literal pattern: every
\* non-overlapping occurrence, left to right.
RECURSIVE ReplaceFrom(_, _, _, _)
ReplaceFrom(s, pat, rep, i) ==
  LET c == {j \in i..Len(s) : MatchAt(s, j, pat)}
  IN IF c = {} THEN SubSeq(s, i, Len(s))
     ELSE SubSeq(s, i, MinOf(c) - 1) \o rep
            \o ReplaceFrom(s, pat, rep, MinOf(c) + Len(pat))

ReplaceAll(s, pat, rep) == ReplaceFrom(s, pat, rep, 1)

\* the last index of the run of word atoms (\w+, greedy) that starts at i
RECURSIVE WordEnd(_, _)
WordEnd(s, i) == IF i + 1 <= Len(s) /\ IsWord(s[i + 1]) THEN WordEnd(s, i + 1) ELSE i

\* the last index of the run of whitespace (\s+, greedy) that starts at i
RECURSIVE WsEnd(_, _)
WsEnd(s, i) == IF i + 1 <= Len(s) /\ IsWs(s[i + 1]) THEN WsEnd(s, i + 1) ELSE i

RECURSIVE JoinWith(_, _)
JoinWith(parts, sep) ==
  IF parts = <<>> THEN <<>>
  ELSE IF Len(parts) = 1 THEN parts[1]
  ELSE parts[1] \o sep \o JoinWith(Tail(parts), sep)

\* ------------------------------------------------------------ sqlparse
\* sqlparse.parse: a statement ends at a semicolon and takes the whitespace
\* that follows it; the next statement starts at the first other atom.
RECURSIVE SplitFrom(_, _)
SplitFrom(s, i) ==
  IF i > Len(s) THEN <<>>
  ELSE LET c == {j \in i..Len(s) : s[j] = ";"}
       IN IF c = {} THEN <<SubSeq(s, i, Len(s))>>
          ELSE <<SubSeq(s, i, WsEnd(s, MinOf(c)))>> \o SplitFrom(s, WsEnd(s, MinOf(c)) + 1)

sqlparse_parse(sql) == SplitFrom(sql, 1)

RECURSIVE StripNonEmpty(_)
StripNonEmpty(stmts) ==
  IF stmts = <<>> THEN <<>>
  ELSE IF Strip(Head(stmts)) = <<>> THEN StripNonEmpty(Tail(stmts))
  ELSE <<Strip(Head(stmts))>> \o StripNonEmpty(Tail(stmts))

\* [str(statement).strip() for statement in sqlparse.parse(sql)
\*  if str(statement).strip()]
Statements(sql) == StripNonEmpty(sqlparse_parse(sql))

\* the list with the filter on ";" left out
KeepStatements(stmts) == stmts

\* [statement for statement in statements if statement != ";"]
DropSemicolons(stmts) == LET NotSemicolon(x) == x # <<";">> IN SelectSeq(stmts, NotSemicolon)

\* ------------------------------------------- convert_serial_to_sequence
SchemaAtom == "antismash"

replace_serial_sequence_name(table_name, column_name) ==
  table_name \o <<"_">> \o column_name \o <<"_seq">>

replace_serial_sequence_declaration(table_name, column_name) ==
  <<"CREATE", " ", "SEQUENCE", " ", SchemaAtom, ".">>
    \o replace_serial_sequence_name(table_name, column_name)
    \o <<" ", "START", " ", "1", ";">>

replace_serial_column_declaration(table_name, column_name) ==
  column_name
    \o <<" ", "INTEGER", " ", "DEFAULT", " ", "nextval", "(", "'", SchemaAtom, ".">>
    \o replace_serial_sequence_name(table_name, column_name)
    \o <<"'", ")">>

\* re.search(r"CREATE TABLE (\w+\.\w+)", statement): the place of the first
\* match, 0 when there is none
TableNameMatchAt(s, i) ==
  /\ MatchAt(s, i, <<"CREATE", " ", "TABLE", " ">>)
  /\ i + 4 <= Len(s)
  /\ IsWord(s[i + 4])
  /\ LET q == WordEnd(s, i + 4)
     IN /\ q + 2 <= Len(s)
        /\ s[q + 1] = "."
        /\ IsWord(s[q + 2])

TableNameSearch(s) ==
  LET c == {i \in 1..Len(s) : TableNameMatchAt(s, i)}
  IN IF c = {} THEN 0 ELSE MinOf(c)

\* table_name_match.group(1).replace(".", "_")
TableNameOf(s, i) ==
  LET q == WordEnd(s, i + 4)
  IN SubSeq(s, i + 4, q) \o <<"_">> \o SubSeq(s, q + 2, WordEnd(s, q + 2))

\* where a match of (\w+)\s+serial that starts at p ends, 0 when none does
SerialMatchEnd(s, p) ==
  IF ~IsWord(s[p]) THEN 0
  ELSE LET q == WordEnd(s, p)
       IN IF q + 1 <= Len(s) /\ IsWs(s[q + 1])
          THEN LET r == WsEnd(s, q + 1)
               IN IF r + 1 <= Len(s) /\ s[r + 1] = "serial" THEN r + 1 ELSE 0
          ELSE 0

\* re.findall(r"(\w+)\s+serial", statement)
RECURSIVE FindSerialFrom(_, _)
FindSerialFrom(s, from) ==
  LET c == {p \in from..Len(s) : SerialMatchEnd(s, p) # 0}
  IN IF c = {} THEN <<>>
     ELSE <<SubSeq(s, MinOf(c), WordEnd(s, MinOf(c)))>>
            \o FindSerialFrom(s, SerialMatchEnd(s, MinOf(c)) + 1)

FindSerialColumns(s) == FindSerialFrom(s, 1)

\* where a match of {column_name}\s+serial that starts at p ends, 0 when none
ColumnMatchEnd(s, p, column_name) ==
  IF ~MatchAt(s, p, column_name) THEN 0
  ELSE LET q == p + Len(column_name) - 1
       IN IF q + 1 <= Len(s) /\ IsWs(s[q + 1])
          THEN LET r == WsEnd(s, q + 1)
               IN IF r + 1 <= Len(s) /\ s[r + 1] = "serial" THEN r + 1 ELSE 0
          ELSE 0

\* re.sub(pattern, rep, statement) with no count: every match is replaced
RECURSIVE SubSerialEvery(_, _, _, _)
SubSerialEvery(s, column_name, rep, from) ==
  LET c == {p \in from..Len(s) : ColumnMatchEnd(s, p, column_name) # 0}
  IN IF c = {} THEN SubSeq(s, from, Len(s))
     ELSE SubSeq(s, from, MinOf(c) - 1) \o rep
            \o SubSerialEvery(s, column_name, rep,
                              ColumnMatchEnd(s, MinOf(c), column_name) + 1)

SubSerialAll(s, column_name, rep) == SubSerialEvery(s, column_name, rep, 1)

\* re.sub(rf"{column_name}\s+serial", column_declaration, statement, count=1)
SubSerial(s, column_name, rep) ==
  LET c == {p \in 1..Len(s) : ColumnMatchEnd(s, p, column_name) # 0}
  IN IF c = {} THEN s
     ELSE LET p == MinOf(c)
          IN SubSeq(s, 1, p - 1) \o rep
               \o SubSeq(s, ColumnMatchEnd(s, p, column_name) + 1, Len(s))

\* the loop over the serial columns found: the statement after each
\* column's substitution
RECURSIVE RewriteColumns(_, _, _)
RewriteColumns(s, table_name, matches) ==
  IF matches = <<>> THEN s
  ELSE RewriteColumns(
         SubSerial(s, Head(matches),
                   replace_serial_column_declaration(table_name, Head(matches))),
         table_name, Tail(matches))

SequenceDeclarations(table_name, matches) ==
  [k \in 1..Len(matches) |->
     replace_serial_sequence_declaration(table_name, matches[k])]

\* the body of the loop over the statements
ProcessStatement(statement) ==
  IF Contains(statement, <<"CREATE", " ", "TABLE">>)
  THEN LET at == TableNameSearch(statement)
       IN IF at # 0
          THEN LET table_name == TableNameOf(statement, at)
                   matches == FindSerialColumns(statement)
                   decls == SequenceDeclarations(table_name, matches)
                   rewritten == RewriteColumns(statement, table_name, matches)
               IN IF decls # <<>>
                  THEN JoinWith(decls, <<"\n">>) \o <<"\n">> \o rewritten
                  ELSE rewritten
          ELSE statement
  ELSE statement

convert_serial_to_sequence(sql) ==
  LET statements == Statements(sql)
      processed == [k \in 1..Len(statements) |-> ProcessStatement(statements[k])]
  IN JoinWith(processed, <<";">>)

\* ------------------------------------------- convert_postgres_to_duckdb
AtLineStart(s, p) == p = 1 \/ s[p - 1] = "\n"

\* the first index at or after p that holds no whitespace (Len(s) + 1 if none)
RECURSIVE SkipWs(_, _)
SkipWs(s, p) == IF p <= Len(s) /\ IsWs(s[p]) THEN SkipWs(s, p + 1) ELSE p

\* the index of the first newline at or after p (Len(s) if none)
LineEnd(s, p) == MinOf({e \in p..Len(s) : s[e] = "\n"} \cup {Len(s)})

CommentMatchAt(s, p) ==
  AtLineStart(s, p) /\ SkipWs(s, p) <= Len(s) /\ s[SkipWs(s, p)] = "---"

\* re.sub(r"(?m)^\s*---.*\n?", "", sql)
RECURSIVE StripCommentFrom(_, _)
StripCommentFrom(s, from) ==
  LET c == {p \in from..Len(s) : CommentMatchAt(s, p)}
  IN IF c = {} THEN SubSeq(s, from, Len(s))
     ELSE SubSeq(s, from, MinOf(c) - 1)
            \o StripCommentFrom(s, LineEnd(s, SkipWs(s, MinOf(c))) + 1)

StripCommentLines(s) == StripCommentFrom(s, 1)

\* re.sub(r"\s+", " ", sql)
CollapseWhitespace(s) ==
  LET StartsRun(p) == ~(IsWs(s[p]) /\ p > 1 /\ IsWs(s[p - 1]))
      kept == SelectSeq([p \in 1..Len(s) |-> p], StartsRun)
  IN [k \in 1..Len(kept) |-> IF IsWs(s[kept[k]]) THEN " " ELSE s[kept[k]]]

\* re.sub(r";\s*", ";\n", sql)
RECURSIVE NewlineAfterFrom(_, _)
NewlineAfterFrom(s, from) ==
  LET c == {p \in from..Len(s) : s[p] = ";"}
  IN IF c = {} THEN SubSeq(s, from, Len(s))
     ELSE SubSeq(s, from, MinOf(c)) \o <<"\n">>
            \o NewlineAfterFrom(s, SkipWs(s, MinOf(c) + 1))

NewlineAfterSemicolon(s) == NewlineAfterFrom(s, 1)

OnDeleteSetNull == <<"ON", " ", "DELETE", " ", "SET", " ", "NULL">>
OnDeleteCascade == <<"ON", " ", "DELETE", " ", "CASCADE">>
OnDeleteSetDefault == <<"ON", " ", "DELETE", " ", "SET", " ", "DEFAULT">>

StripForeignKeyActions(s) ==
  ReplaceAll(ReplaceAll(ReplaceAll(s, OnDeleteSetNull, <<>>), OnDeleteCascade, <<>>),
             OnDeleteSetDefault, <<>>)

AsDomainsRef == <<" ", "REFERENCES", " ", "antismash", ".", "as_domains">>

\* the two substitutions for as_domains.sql
StripAsDomainsReferences(s) ==
  ReplaceAll(
    ReplaceAll(s, <<"follows", " ", "int4">> \o AsDomainsRef, <<"follows", " ", "int4">>),
    <<"as_domain_id", " ", "int4", " ", "NOT", " ", "NULL">> \o AsDomainsRef,
    <<"as_domain_id", " ", "int4", " ", "NOT", " ", "NULL">>)

\* the conversions dictionary, applied with str.replace
ApplyConversions(s) ==
  ReplaceAll(ReplaceAll(ReplaceAll(s, <<"TEXT", "[", "]">>, <<"TEXT">>),
                        <<"MATERIALIZED">>, <<>>),
             <<"CURRENT_TIMESTAMP">>, <<"CURRENT_TIMESTAMP">>)

convert_postgres_to_duckdb(sql) ==
  ApplyConversions(
    StripAsDomainsReferences(
      StripForeignKeyActions(
        convert_serial_to_sequence(
          NewlineAfterSemicolon(CollapseWhitespace(StripCommentLines(sql)))))))

\* ------------------------------------------------- inputs of the rewriter
\* A statement is described by its structure and rendered to text, so that
\* what the rewriter does to the text can be compared with the structure.
ColNames == {<<"id">>, <<"a_", "id">>, <<"name">>}
ColTypes == {<<"serial">>, <<"int4">>}
Gaps == {" ", "\t"}

ColLists(n) ==
  {c \in [1..n -> [name : ColNames, type : ColTypes]] :
     \A i, j \in 1..n : i # j => c[i].name # c[j].name}

TableDescs ==
  UNION {[kind : {"table"}, name : {"regions"}, gap : Gaps, cols : ColLists(n),
          text : {<<>>}] : n \in 1..MaxCols}

OtherDesc(text) ==
  [kind |-> "other", name |-> "", gap |-> " ", cols |-> <<>>, text |-> text]

CascadeTable ==
  <<"CREATE", " ", "TABLE", " ", "antismash", ".", "genes", " ", "(", "cds_id", " ",
    "int4", " ", "REFERENCES", " ", "antismash", ".", "cdss", " ", "ON", " ",
    "DELETE", " ", "CASCADE", ",", " ", "tags", " ", "TEXT", "[", "]", ")">>

MaterializedView ==
  <<"CREATE", " ", "MATERIALIZED", " ", "VIEW", " ", "antismash", ".", "lengths",
    " ", "AS", " ", "SELECT", " ", "1">>

CreateIndex ==
  <<"CREATE", " ", "INDEX", " ", "ON", " ", "antismash", ".", "genes", " ", "(",
    "cds_id", ")">>

LeadDescs ==
  {OtherDesc(CreateIndex), OtherDesc(CascadeTable),
   [kind |-> "table", name |-> "genomes", gap |-> " ",
    cols |-> <<[name |-> <<"id">>, type |-> <<"serial">>]>>, text |-> <<>>]}

LastDescs == TableDescs \cup {OtherDesc(CreateIndex), OtherDesc(MaterializedView)}

\* the blobs of 1..n statements
RECURSIVE StmtLists(_)
StmtLists(n) ==
  IF n = 0 THEN {<<>>}
  ELSE {<<>>} \cup {<<d>> \o r : d \in LeadDescs, r \in StmtLists(n - 1)}

BlobDescs ==
  {[stmts |-> l \o <<d>>, sep |-> s, comment |-> c] :
     l \in StmtLists(MaxStmts - 1), d \in LastDescs, s \in {" ", "\n"},
     c \in BOOLEAN}

RenderCol(c, gap) == c.name \o <<gap>> \o c.type

RenderTable(name, gap, cols) ==
  <<"CREATE", " ", "TABLE", " ", "antismash", ".", name, " ", "(">>
    \o JoinWith([k \in 1..Len(cols) |-> RenderCol(cols[k], gap)], <<",", " ">>)
    \o <<")">>

\* the statement's text, without its semicolon
RenderStmt(d) ==
  IF d.kind = "table" THEN RenderTable(d.name, d.gap, d.cols) ELSE d.text

RenderBlob(b) ==
  (IF b.comment THEN <<"---", " ", "schema", "\n">> ELSE <<>>)
    \o JoinWith([k \in 1..Len(b.stmts) |-> RenderStmt(b.stmts[k]) \o <<";">>], <<b.sep>>)
    \o <<"\n">>

\* ------------------------------------------------------------ sql_to_csv
\* A dump file is a sequence of lines, a line a sequence of atoms (its line
\* end left out: strip() drops it).  A field is a sequence of atoms; the empty
\* string is <<>>.
CopyAtom == "COPY"
EndMarker == <<"\\.">>
NullField == <<"\\N">>

\* line.startswith("COPY")
StartsWithCopy(line) == line # <<>> /\ line[1] = CopyAtom

\* line.strip() == "\\."
IsEndMarker(line) == Strip(line) = EndMarker

\* the line (counted from 1) at which the scan breaks, 0 if it never does
BreakLine(lines) ==
  LET c == {i \in 1..Len(lines) : ~StartsWithCopy(lines[i]) /\ IsEndMarker(lines[i])}
  IN IF c = {} THEN 0 ELSE MinOf(c)

ScannedUpTo(lines) == IF BreakLine(lines) = 0 THEN Len(lines) ELSE BreakLine(lines)

\* start_index: one past the (0-based) index of the last COPY line scanned
StartIndex(lines) ==
  LET c == {i \in 1..ScannedUpTo(lines) : StartsWithCopy(lines[i])}
  IN IF c = {} THEN 0 ELSE CHOOSE i \in c : \A j \in c : j <= i

\* end_index: the 0-based index of the line the scan broke at
EndIndex(lines) == IF BreakLine(lines) = 0 THEN 0 ELSE BreakLine(lines) - 1

\* lines[start_index:end_index]
DataLines(lines) == SubSeq(lines, StartIndex(lines) + 1, EndIndex(lines))

\* str.split("\t")
RECURSIVE SplitTabs(_)
SplitTabs(s) ==
  LET c == {i \in 1..Len(s) : s[i] = "\t"}
  IN IF c = {} THEN <<s>>
     ELSE <<SubSeq(s, 1, MinOf(c) - 1)>> \o SplitTabs(SubSeq(s, MinOf(c) + 1, Len(s)))

\* the columns of one data line
Columns(line) ==
  LET columns == SplitTabs(Strip(line))
  IN [k \in 1..Len(columns) |-> IF columns[k] # NullField THEN columns[k] ELSE <<>>]

\* csv.writer(..., quoting=csv.QUOTE_MINIMAL).writerow: a cell is quoted when
\* it holds the delimiter, the quote character or a line end, and a row of
\* one empty cell is written as a quoted empty cell
NeedsQuote(row, k) ==
  \/ \E i \in 1..Len(row[k]) : row[k][i] \in {",", "\"", "\n", "\r"}
  \/ Len(row) = 1 /\ row[1] = <<>>

WriteRow(row) == [k \in 1..Len(row) |-> [text |-> row[k], quoted |-> NeedsQuote(row, k)]]

\* csv.reader: the cells' texts
ReadRow(cells) == [k \in 1..Len(cells) |-> cells[k].text]

\* list(csv.reader(file))
WrittenRows(file) == [k \in 1..Len(file) |-> ReadRow(file[k])]

\* the rows sql_to_csv writes to output_csv_file
sql_to_csv(lines, headers) ==
  <<WriteRow(headers)>>
    \o [k \in 1..Len(DataLines(lines)) |-> WriteRow(Columns(DataLines(lines)[k]))]

MonomerHeaders == <<<<"monomer_id">>, <<"substrate_id">>, <<"name">>, <<"description">>>>
TaxaHeaders ==
  <<<<"tax_id">>, <<"ncbi_taxid">>, <<"superkingdom">>, <<"kingdom">>, <<"phylum">>,
    <<"class">>, <<"taxonomic_order">>, <<"family">>, <<"genus">>, <<"species">>,
    <<"strain">>, <<"name">>>>

\* ------------------------------------------------- inputs of sql_to_csv
FieldPool == {<<>>, NullField, <<"1">>, <<"foo">>}

RowPool == UNION {[1..n -> FieldPool] : n \in 1..2}

RowLists == UNION {[1..n -> RowPool] : n \in 0..MaxRows}

LinePool == {<<"SET", " ", "x", ";">>, EndMarker}

LeadLines == UNION {[1..n -> LinePool] : n \in 0..MaxLead}

CopyLine == <<CopyAtom, " ", "antismash", ".", "monomers", " ", "FROM", " ", "stdin", ";">>

DumpDescs == [pre : LeadLines, copy : BOOLEAN, rows : RowLists, end : BOOLEAN]

RenderRow(fields) == JoinWith(fields, <<"\t">>)

RenderDump(d) ==
  d.pre
    \o (IF d.copy THEN <<CopyLine>> ELSE <<>>)
    \o [k \in 1..Len(d.rows) |-> RenderRow(d.rows[k])]
    \o (IF d.end THEN <<EndMarker>> ELSE <<>>)

\* ---------------------------------------------------- init_duckdb_schema
TableList ==
  <<"sampling_sites", "bgc_types", "substrates", "taxa", "profiles",
    "as_domain_profiles", "pfams", "gene_ontologies", "resfams", "tigrfams",
    "bgc_rules", "samples", "isolates", "genomes", "dna_sequences", "regions",
    "candidates", "protoclusters", "functional_classes", "smcogs", "cdss", "genes",
    "ripps", "t2pks", "monomers", "modules", "as_domains", "clusterblast_algorithms",
    "clusterblast_hits", "tta_codons", "pfam_domains", "pfam_go_entries", "filenames",
    "resfam_domains", "tfbs", "comparippson", "tigrfam_domains",
    "cluster_compare_hits", "rel_candidates_protoclusters", "rel_candidates_types",
    "rel_candidates_modules", "rel_cds_candidates", "rel_cds_protoclusters",
    "rel_regions_types", "rel_as_domains_substrates", "smcog_hits", "profile_hits",
    "rel_modules_monomers", "view_sequence_gc_content", "view_sequence_lengths",
    "preload_taxa", "preload_monomers">>

\* the list with monomers moved up, in front of substrates
TablesReordered ==
  [i \in 1..Len(TableList) |->
     IF i = 3 THEN TableList[25]
     ELSE IF i \in 4..25 THEN TableList[i - 1]
     ELSE TableList[i]]

TABLES == TableList

IndexOf(t) == CHOOSE i \in 1..Len(TABLES) : TABLES[i] = t

\* str(n) and int(s) on the ids the model uses
Digits == <<"0", "1", "2", "3", "4", "5", "6", "7", "8", "9">>
NumAtom(n) == Digits[n + 1]
IsInt(field) == Len(field) = 1 /\ \E n \in 0..9 : Digits[n + 1] = field[1]
IntOf(field) == CHOOSE n \in 0..9 : Digits[n + 1] = field[1]

Indent == <<"\n", " ", " ", " ", " ">>

view_sequence_gc_content ==
  Indent \o <<"CREATE", " ", "VIEW", " ", "antismash", ".", "sequence_gc_content", " ",
              "AS">>
    \o Indent \o <<"SELECT">>
    \o Indent \o <<" ", "accession", ",">>
    \o Indent \o <<" ", "ROUND", "(", "100.0", " ", "*", " ", "(">>
    \o Indent \o <<" ", " ", "length", "(", "dna", ")", " ", "-", " ", "length", "(",
                   "replace", "(", "dna", ",", " ", "'", "G", "'", ",", " ", "'", "'",
                   ")", ")", " ", "+">>
    \o Indent \o <<" ", " ", "length", "(", "dna", ")", " ", "-", " ", "length", "(",
                   "replace", "(", "dna", ",", " ", "'", "C", "'", ",", " ", "'", "'",
                   ")", ")">>
    \o Indent \o <<" ", ")", " ", "/", " ", "length", "(", "dna", ")", ",", " ", "2",
                   ")", " ", "AS", " ", "gc_content">>
    \o Indent \o <<"FROM">>
    \o Indent \o <<" ", "antismash", ".", "dna_sequences", ";">>
    \o Indent

MonomerSequence == <<"antismash", ".", "antismash_monomers_monomer_id_seq">>
TaxaSequence == <<"antismash", ".", "antismash_taxa_tax_id_seq">>

\* the f-string monomers, with next_id_start
monomers_sql(next_id_start) ==
  Indent \o <<"CREATE", " ", "SEQUENCE", " ">> \o MonomerSequence
    \o <<" ", "START", " ", NumAtom(next_id_start), ";">>
    \o Indent
    \o <<"CREATE", " ", "TABLE", " ", "antismash", ".", "monomers", " ", "(", " ",
         "monomer_id", " ", "INTEGER", " ", "DEFAULT", " ", "nextval", "(", "'">>
    \o MonomerSequence
    \o <<"'", ")", " ", "NOT", " ", "NULL", " ", "PRIMARY", " ", "KEY", ",", " ",
         "substrate_id", " ", "int4", " ", "NOT", " ", "NULL", " ", "REFERENCES", " ",
         "antismash", ".", "substrates", ",", " ", "name", " ", "text", " ", "NOT", " ",
         "NULL", ",", " ", "description", " ", "text", ",", " ", "CONSTRAINT", " ",
         "monomer_name_unique", " ", "UNIQUE", " ", "(", "name", ")", " ", ")", ";">>
    \o Indent

\* the f-string taxa, with next_id_start
taxa_sql(next_id_start) ==
  Indent \o <<"CREATE", " ", "SEQUENCE", " ">> \o TaxaSequence
    \o <<" ", "START", " ", NumAtom(next_id_start), ";">>
    \o Indent
    \o <<"CREATE", " ", "TABLE", " ", "antismash", ".", "taxa", " ", "(", " ", "tax_id",
         " ", "INTEGER", " ", "DEFAULT", " ", "nextval", "(", "'">>
    \o TaxaSequence
    \o <<"'", ")", " ", "NOT", " ", "NULL", ",", " ", "ncbi_taxid", " ", "int4", ",", " ",
         "superkingdom", " ", "text", ",", " ", "kingdom", " ", "text", ",", " ",
         "phylum", " ", "text", ",", " ", "CLASS", " ", "text", ",", " ",
         "taxonomic_order", " ", "text", ",", " ", "family", " ", "text", ",", " ",
         "genus", " ", "text", ",", " ", "species", " ", "text", ",", " ", "strain", " ",
         "text", ",", " ", "name", " ", "text", " ", "NOT", " ", "NULL", ",", " ",
         "CONSTRAINT", " ", "taxa_pkey", " ", "PRIMARY", " ", "KEY", " ", "(", "tax_id",
         ")", ",", " ", "CONSTRAINT", " ", "taxa_name_unique", " ", "UNIQUE", " ", "(",
         "name", ")", " ", ")", ";", " ", " ", " ", " ">>

preload_sql(table, csv_path) ==
  <<"COPY", " ", "antismash", ".", table, " ", "FROM", " ", "'", csv_path, "'", " ", "(",
    "AUTO_DETECT", " ", "TRUE", ")", ";">>

ExceptionNames ==
  {"view_sequence_gc_content", "preload_taxa", "preload_monomers", "monomers", "taxa"}

\* duckdb_exceptions[t]
duckdb_exceptions(t, monomer_start, taxa_start) ==
  CASE t = "view_sequence_gc_content" -> view_sequence_gc_content
    [] t = "preload_taxa" -> preload_sql("taxa", "preload_taxa_csv")
    [] t = "preload_monomers" -> preload_sql("monomers", "preload_monomers_csv")
    [] t = "monomers" -> monomers_sql(monomer_start)
    [] t = "taxa" -> taxa_sql(taxa_start)

\* sqlparse.format(sql, reindent=False, keyword_case="upper"): the keywords
\* the inputs write in lower case
KeywordUpper(a) ==
  CASE a = "create" -> "CREATE"
    [] a = "table" -> "TABLE"
    [] a = "index" -> "INDEX"
    [] a = "on" -> "ON"
    [] a = "not" -> "NOT"
    [] a = "null" -> "NULL"
    [] a = "references" -> "REFERENCES"
    [] a = "replace" -> "REPLACE"
    [] OTHER -> a

sqlparse_format(s) == [i \in 1..Len(s) |-> KeywordUpper(s[i])]

\* the statement list built for one table from its source text
BuildStatements(sql_command) ==
  DropSemicolons(Statements(convert_postgres_to_duckdb(sqlparse_format(sql_command))))

\* statement.split(";")
RECURSIVE SplitSemicolons(_)
SplitSemicolons(s) ==
  LET c == {i \in 1..Len(s) : s[i] = ";"}
  IN IF c = {} THEN <<s>>
     ELSE <<SubSeq(s, 1, MinOf(c) - 1)>> \o SplitSemicolons(SubSeq(s, MinOf(c) + 1, Len(s)))

\* What a statement does to the database when it executes: its leading words
\* up to the qualified name it is about (CREATE TABLE antismash.regions,
\* COPY antismash.taxa); the whole statement if it names nothing.
EffectOf(st) ==
  LET c == {i \in 1..Len(st) : st[i] = "." /\ i < Len(st) /\ IsWord(st[i + 1])}
  IN IF c = {} THEN st ELSE SubSeq(st, 1, WordEnd(st, MinOf(c) + 1))

\* the sequence names a statement's column defaults use: nextval('<name>')
NextvalNames(st) ==
  {SubSeq(st, i + 3, MinOf({j \in (i + 3)..Len(st) : st[j] = "'"}) - 1) :
     i \in {k \in 1..Len(st) : MatchAt(st, k, <<"nextval", "(", "'">>)
                                  /\ \E j \in (k + 3)..Len(st) : st[j] = "'"}}

\* ------------------------------------------------------ inputs of a run
\* The .sql file of table t in input directory d: each file defines its table.
FileStatementCounts == <<1, 2, 1, 3>>
FileKinds == Len(FileStatementCounts)

FileText(kind, t) ==
  CASE kind = 0 ->
         <<"---", " ", t, "\n", "create", " ", "table", " ", "antismash", ".", t, " ",
           "(", t, "_id", " ", "serial", " ", "not", " ", "null", ",", "\n", " ", " ",
           "name", " ", "text", ")", ";", "\n">>
    [] kind = 1 ->
         <<"CREATE", " ", "TABLE", " ", "antismash", ".", t, " ", "(", "id", " ", "int4",
           " ", "REFERENCES", " ", "antismash", ".", "bgc_types", " ", "ON", " ",
           "DELETE", " ", "CASCADE", ")", ";", " ", "CREATE", " ", "INDEX", " ", "ON",
           " ", "antismash", ".", t, " ", "(", "id", ")", ";">>
    [] kind = 2 ->
         <<"CREATE", " ", "TABLE", " ", "antismash", ".", t, " ", "(", "id", " ", "int4",
           ",", " ", "tags", " ", "TEXT", "[", "]", ")", ";", "\n">>
    [] kind = 3 ->
         <<"CREATE", " ", "TABLE", " ", "antismash", ".", t, " ", "(", "id", " ", "int4",
           ")", ";", "\n", "\n", "CREATE", " ", "INDEX", " ", "ON", " ", "antismash", ".",
           t, " ", "(", "id", ")", ";", "\n", "COMMENT", " ", "ON", " ", "TABLE", " ",
           "antismash", ".", t, " ", "IS", " ", "'", "x", "'", ";", "\n">>

\* the number of `;`-terminated statements FileText(kind, t) holds, and
\* whether one of them declares a serial column
FileStatementCount(kind) == FileStatementCounts[kind + 1]
FileHasSerial(kind) == kind = 0

FileKindOf(d, t) == (d + IndexOf(t)) % FileKinds

\* the preload dumps: ids in order, ids out of order, no data row, one row
PreloadDumps ==
  {[pre |-> <<>>, copy |-> TRUE, end |-> TRUE,
    rows |-> <<<<<<"1">>, <<"7">>, <<"ala">>, NullField>>,
               <<<<"2">>, <<"7">>, <<"gly">>, <<"foo">>>>>>],
   [pre |-> <<<<"SET", " ", "x", ";">>>>, copy |-> TRUE, end |-> TRUE,
    rows |-> <<<<<<"2">>, <<"7">>, <<"gly">>, <<"foo">>>>,
               <<<<"1">>, <<"7">>, <<"ala">>, NullField>>>>],
   [pre |-> <<>>, copy |-> TRUE, end |-> TRUE, rows |-> <<>>],
   [pre |-> <<>>, copy |-> TRUE, end |-> TRUE,
    rows |-> <<<<<<"3">>, <<"7">>, <<"ser">>, <<>>>>>>]}

\* ------------------------------------------------------------------ state
VARIABLES
  rpc,        \* rewriter runs: "idle", "input", "serial", "once", "twice"
  blob,       \* the description of the blob given to the rewriter
  sql,        \* its text
  serialOut,  \* convert_serial_to_sequence(sql)
  result,     \* convert_postgres_to_duckdb(sql)
  again,      \* convert_postgres_to_duckdb(result)
  cpc,        \* extractor runs: "idle", "input", "written"
  dump,       \* the description of the dump given to sql_to_csv
  lines,      \* its lines
  headers,    \* the header list given with it
  csvOut,     \* the rows written
  pc,         \* where init_duckdb_schema is
  dir,        \* the input directory (which text each <table>.sql holds)
  conn,       \* the DuckDB connection: "none", "open", "closed"
  exitCode,   \* the process's exit code, -1 while it runs
  lastError,  \* what the last logging.error call reported, "none" if none
  uncaught,   \* the exception that ended the run uncaught, "none" if none
  absent,     \* the input file found absent, "none" if none
  monomer_csv, taxa_csv,      \* the rows of the two preload CSV files
  monomer_start, taxa_start,  \* next_id_start of each, 0 before it is set
  ti,         \* the index in TABLES of the table in process
  statements, \* its statement list
  num,        \* the index of the statement in execution
  frag,       \* the index of the fragment in execution (fallback)
  attempted,  \* the fragments of statements[num] handed to conn.execute so far
  executed,   \* <<ti, num>> of every statement handed to conn.execute, in order
  db,         \* the database: the effects of the statements that succeeded
  outFiles    \* the tables whose rewritten .sql file is written

rewriteVars == <<rpc, blob, sql, serialOut, result, again>>
csvVars == <<cpc, dump, lines, headers, csvOut>>
preloadVars == <<monomer_csv, taxa_csv, monomer_start, taxa_start>>
loopVars == <<ti, statements, num, frag, attempted>>
runVars ==
  <<pc, dir, conn, exitCode, lastError, uncaught, absent, preloadVars, loopVars,
    executed, db, outFiles>>
vars == <<rewriteVars, csvVars, runVars>>

NoBlob == [stmts |-> <<>>, sep |-> " ", comment |-> FALSE]

RewriteIdle ==
  /\ rpc = "idle"
  /\ blob = NoBlob
  /\ sql = <<>>
  /\ serialOut = <<>>
  /\ result = <<>>
  /\ again = <<>>

NoDump == [pre |-> <<>>, copy |-> FALSE, rows |-> <<>>, end |-> FALSE]

CsvIdle ==
  /\ cpc = "idle"
  /\ dump = NoDump
  /\ lines = <<>>
  /\ headers = <<>>
  /\ csvOut = <<>>

RunIdle ==
  /\ pc = "idle"
  /\ dir = 0
  /\ conn = "none"
  /\ exitCode = -1
  /\ lastError = "none"
  /\ uncaught = "none"
  /\ absent = "none"
  /\ monomer_csv = <<>>
  /\ taxa_csv = <<>>
  /\ monomer_start = 0
  /\ taxa_start = 0
  /\ ti = 0
  /\ statements = <<>>
  /\ num = 0
  /\ frag = 0
  /\ attempted = {}
  /\ executed = <<>>
  /\ db = {}
  /\ outFiles = {}

\* ------------------------------------------------ a run of the program
SchemaEffect == <<"CREATE", " ", "SCHEMA", " ", "antismash">>

RunInit ==
  /\ pc = "connect"
  /\ dir \in 0..(FileKinds - 1)
  /\ conn = "none"
  /\ exitCode = -1
  /\ lastError = "none"
  /\ uncaught = "none"
  /\ absent = "none"
  /\ monomer_csv = <<>>
  /\ taxa_csv = <<>>
  /\ monomer_start = 0
  /\ taxa_start = 0
  /\ ti = 0
  /\ statements = <<>>
  /\ num = 0
  /\ frag = 0
  /\ attempted = {}
  /\ executed = <<>>
  /\ db = {}
  /\ outFiles = {}
  /\ RewriteIdle
  /\ CsvIdle

\* an exception nothing catches: the interpreter prints the traceback and the
\* process ends with exit code 1
Raise(exception) ==
  /\ uncaught' = exception
  /\ exitCode' = 1
  /\ pc' = "exited"

\* --duckdb-database names no file: the assertion fails
DatabaseFileAbsent ==
  /\ pc = "connect"
  /\ Raise("AssertionError")
  /\ UNCHANGED <<rewriteVars, csvVars, dir, conn, lastError, absent, preloadVars, loopVars, executed, db,
                 outFiles>>

\* duckdb.connect and the CREATE SCHEMA IF NOT EXISTS / SET SCHEMA statement
Connect ==
  /\ pc = "connect"
  /\ conn' = "open"
  /\ db' = db \cup {SchemaEffect}
  /\ pc' = "preload_monomers"
  /\ UNCHANGED <<rewriteVars, csvVars, dir, exitCode, lastError, uncaught, absent, preloadVars, loopVars,
                 executed, outFiles>>

\* the first column of the last non-empty row csv.reader yields (1 if none)
LastId(file) ==
  LET NonEmpty(row) == row # <<>>
      rows == SelectSeq(WrittenRows(file), NonEmpty)
  IN IF rows = <<>> THEN <<"1">> ELSE rows[Len(rows)][1]

\* sql_to_csv cannot open preload_monomers.sql
PreloadMonomersFileAbsent ==
  /\ pc = "preload_monomers"
  /\ absent' = "preload_monomers"
  /\ Raise("FileNotFoundError")
  /\ UNCHANGED <<rewriteVars, csvVars, dir, conn, lastError, preloadVars, loopVars, executed, db, outFiles>>

\* sql_to_csv on preload_monomers.sql, then next_id_start from the CSV
PreloadMonomers ==
  /\ pc = "preload_monomers"
  /\ \E d \in PreloadDumps :
       LET file == sql_to_csv(RenderDump(d), MonomerHeaders)
       IN /\ monomer_csv' = file
          /\ IF IsInt(LastId(file))
             THEN /\ monomer_start' = IntOf(LastId(file)) + 1
                  /\ pc' = "preload_taxa"
                  /\ UNCHANGED <<uncaught, exitCode>>
             ELSE /\ Raise("ValueError")
                  /\ UNCHANGED monomer_start
  /\ UNCHANGED <<rewriteVars, csvVars, dir, conn, lastError, absent, taxa_csv, taxa_start, loopVars,
                 executed, db, outFiles>>

\* sql_to_csv cannot open preload_taxa.sql
PreloadTaxaFileAbsent ==
  /\ pc = "preload_taxa"
  /\ absent' = "preload_taxa"
  /\ Raise("FileNotFoundError")
  /\ UNCHANGED <<rewriteVars, csvVars, dir, conn, lastError, preloadVars, loopVars, executed, db, outFiles>>

\* sql_to_csv on preload_taxa.sql, then next_id_start from the CSV
PreloadTaxa ==
  /\ pc = "preload_taxa"
  /\ \E d \in PreloadDumps :
       LET file == sql_to_csv(RenderDump(d), TaxaHeaders)
       IN /\ taxa_csv' = file
          /\ IF IsInt(LastId(file))
             THEN /\ taxa_start' = IntOf(LastId(file)) + 1
                  /\ pc' = "locate"
                  /\ ti' = 1
                  /\ UNCHANGED <<uncaught, exitCode>>
             ELSE /\ Raise("ValueError")
                  /\ UNCHANGED <<taxa_start, ti>>
  /\ UNCHANGED <<rewriteVars, csvVars, dir, conn, lastError, absent, monomer_csv, monomer_start, statements,
                 num, frag, attempted, executed, db, outFiles>>

\* The two preload files were opened by sql_to_csv, so they exist; any other
\* file may be absent.
MayBeAbsent(t) == t \notin {"preload_monomers", "preload_taxa"}

\* sql_file_path.is_file() is false: logging.error, exit(1)
MissingFile ==
  /\ pc = "locate"
  /\ ti <= Len(TABLES)
  /\ MayBeAbsent(TABLES[ti])
  /\ absent' = TABLES[ti]
  /\ lastError' = "nofile"
  /\ exitCode' = 1
  /\ pc' = "exited"
  /\ UNCHANGED <<rewriteVars, csvVars, dir, conn, uncaught, preloadVars, loopVars, executed, db, outFiles>>

\* the text the statements of table t are built from
SourceText(t) ==
  IF t \in ExceptionNames
  THEN duckdb_exceptions(t, monomer_start, taxa_start)
  ELSE FileText(FileKindOf(dir, t), t)

\* the file is there: select the text, rewrite, split, write <t>.sql
ProcessTable ==
  /\ pc = "locate"
  /\ ti <= Len(TABLES)
  /\ LET built == BuildStatements(SourceText(TABLES[ti]))
     IN /\ outFiles' = outFiles \cup {TABLES[ti]}
        /\ IF built = <<>>
           THEN /\ ti' = ti + 1
                /\ UNCHANGED <<pc, statements, num>>
           ELSE /\ statements' = built
                /\ num' = 1
                /\ pc' = "exec"
                /\ UNCHANGED ti
  /\ UNCHANGED <<rewriteVars, csvVars, dir, conn, exitCode, lastError, uncaught, absent, preloadVars, frag, attempted,
                 executed, db>>

\* on to the next statement, or to the next table after the last one
NextStatement ==
  IF num < Len(statements)
  THEN /\ num' = num + 1
       /\ pc' = "exec"
       /\ attempted' = {}
       /\ UNCHANGED <<ti, statements>>
  ELSE /\ ti' = ti + 1
       /\ statements' = <<>>
       /\ num' = 0
       /\ attempted' = {}
       /\ pc' = "locate"

\* conn.execute(statement) succeeds
ExecuteStatement ==
  /\ pc = "exec"
  /\ executed' = Append(executed, <<ti, num>>)
  /\ db' = db \cup {EffectOf(statements[num])}
  /\ NextStatement
  /\ UNCHANGED <<rewriteVars, csvVars, dir, conn, exitCode, lastError, uncaught, absent, preloadVars, frag,
                 outFiles>>

\* conn.execute(statement) raises: logging.error, then the fallback
ExecuteStatementFails ==
  /\ pc = "exec"
  /\ executed' = Append(executed, <<ti, num>>)
  /\ lastError' = "exec"
  /\ frag' = 1
  /\ pc' = "fallback"
  /\ UNCHANGED <<rewriteVars, csvVars, dir, conn, exitCode, uncaught, absent, preloadVars, ti, statements,
                 num, attempted, db, outFiles>>

Fragments == SplitSemicolons(statements[num])

\* conn.execute(s) succeeds for fragment s of statement.split(";")
ExecuteFragment ==
  /\ pc = "fallback"
  /\ db' = IF Strip(Fragments[frag]) = <<>> THEN db
           ELSE db \cup {EffectOf(Strip(Fragments[frag]))}
  /\ IF frag < Len(Fragments)
     THEN /\ frag' = frag + 1
          /\ attempted' = attempted \cup {frag}
          /\ UNCHANGED <<pc, ti, statements, num>>
     ELSE /\ frag' = 0
          /\ NextStatement
  /\ UNCHANGED <<rewriteVars, csvVars, dir, conn, exitCode, lastError, uncaught, absent, preloadVars,
                 executed, outFiles>>

\* a faulty fallback that logs the failure and carries on
ExecuteFragmentFailsAndContinues ==
  /\ pc = "fallback"
  /\ lastError' = "fallback"
  /\ frag' = 0
  /\ NextStatement
  /\ UNCHANGED <<rewriteVars, csvVars, dir, conn, exitCode, uncaught, absent, preloadVars, executed, db,
                 outFiles>>

\* conn.execute(s) raises in the fallback: logging.error, exit(1)
ExecuteFragmentFails ==
  /\ pc = "fallback"
  /\ lastError' = "fallback"
  /\ exitCode' = 1
  /\ pc' = "exited"
  /\ attempted' = attempted \cup {frag}
  /\ UNCHANGED <<rewriteVars, csvVars, dir, conn, uncaught, absent, preloadVars, ti, statements, num, frag,
                 executed, db, outFiles>>

\* every table is processed: conn.close(), and the process ends
Close ==
  /\ pc = "locate"
  /\ ti > Len(TABLES)
  /\ conn' = "closed"
  /\ exitCode' = 0
  /\ pc' = "done"
  /\ UNCHANGED <<rewriteVars, csvVars, dir, lastError, uncaught, absent, preloadVars, loopVars, executed, db,
                 outFiles>>

Next ==
  \/ DatabaseFileAbsent
  \/ Connect
  \/ PreloadMonomersFileAbsent
  \/ PreloadMonomers
  \/ PreloadTaxaFileAbsent
  \/ PreloadTaxa
  \/ MissingFile
  \/ ProcessTable
  \/ ExecuteStatement
  \/ ExecuteStatementFails
  \/ ExecuteFragment
  \/ ExecuteFragmentFails
  \/ Close

Spec == RunInit /\ [][Next]_vars

\* --------------------------------------------- the rewriter on its own
RewriteInit ==
  /\ rpc = "input"
  /\ blob \in BlobDescs
  /\ sql = RenderBlob(blob)
  /\ serialOut = <<>>
  /\ result = <<>>
  /\ again = <<>>
  /\ CsvIdle
  /\ RunIdle

ApplySerial ==
  /\ rpc = "input"
  /\ serialOut' = convert_serial_to_sequence(sql)
  /\ rpc' = "serial"
  /\ UNCHANGED <<csvVars, runVars, blob, sql, result, again>>

ApplyConvert ==
  /\ rpc = "input"
  /\ result' = convert_postgres_to_duckdb(sql)
  /\ rpc' = "once"
  /\ UNCHANGED <<csvVars, runVars, blob, sql, serialOut, again>>

ApplyConvertAgain ==
  /\ rpc = "once"
  /\ again' = convert_postgres_to_duckdb(result)
  /\ rpc' = "twice"
  /\ UNCHANGED <<csvVars, runVars, blob, sql, serialOut, result>>

RewriteNext == ApplySerial \/ ApplyConvert \/ ApplyConvertAgain

SpecRewrite == RewriteInit /\ [][RewriteNext]_vars

\* ------------------------------------------------ claims on the rewriter
IsSerial(c) == c.type = <<"serial">>
NSerial(d) == IF d.kind = "table" THEN Len(SelectSeq(d.cols, IsSerial)) ELSE 0

\* the number of statements the first i statements of a blob should become
RECURSIVE Slots(_, _)
Slots(stmts, i) == IF i = 0 THEN 0 ELSE Slots(stmts, i - 1) + NSerial(stmts[i]) + 1

IsCreateSequence(st) ==
  /\ Len(st) > 9
  /\ SubSeq(st, 1, 4) = <<"CREATE", " ", "SEQUENCE", " ">>
  /\ SubSeq(st, Len(st) - 4, Len(st)) = <<" ", "START", " ", "1", ";">>

SequenceNameIn(st) == SubSeq(st, 5, Len(st) - 5)

SerialRank(cols, k) == Len(SelectSeq(SubSeq(cols, 1, k), IsSerial))

ExpectedCol(cols, k, gap, names) ==
  IF IsSerial(cols[k])
  THEN cols[k].name
         \o <<" ", "INTEGER", " ", "DEFAULT", " ", "nextval", "(", "'">>
         \o names[SerialRank(cols, k)] \o <<"'", ")">>
  ELSE RenderCol(cols[k], gap)

ExpectedTable(d, names) ==
  <<"CREATE", " ", "TABLE", " ", "antismash", ".", d.name, " ", "(">>
    \o JoinWith([k \in 1..Len(d.cols) |-> ExpectedCol(d.cols, k, d.gap, names)],
                <<",", " ">>)
    \o <<")", ";">>

\* convert_serial_to_sequence strips no comment: a leading comment line stays
\* in front of the first statement
LeadingComment(b, i) ==
  IF b.comment /\ i = 1 THEN <<"---", " ", "schema", "\n">> ELSE <<>>

SerialRewriteOk(b, out, i) ==
  LET d == b.stmts[i]
      base == Slots(b.stmts, i - 1)
      n == NSerial(d)
      names == [j \in 1..n |-> SequenceNameIn(out[base + j])]
  IN /\ base + n + 1 <= Len(out)
     /\ \A j \in 1..n : IsCreateSequence(out[base + j])
     /\ \A j, k \in 1..n : j # k => names[j] # names[k]
     /\ out[base + n + 1] = LeadingComment(b, i) \o ExpectedTable(d, names)
     /\ \A k \in 1..Len(out[base + n + 1]) : out[base + n + 1][k] # "serial"

\* C4: every CREATE TABLE schema.table statement with N serial columns comes
\* out as exactly N CREATE SEQUENCE statements with pairwise distinct names
\* placed immediately before it, each serial column rewritten to
\* <col> INTEGER DEFAULT nextval('<its own sequence>'), and no word "serial"
\* left in the column list.
C4_SerialColumnsBecomeSequences ==
  rpc = "serial" =>
    LET out == DropSemicolons(Statements(serialOut))
    IN /\ Len(out) = Slots(blob.stmts, Len(blob.stmts))
       /\ \A i \in 1..Len(blob.stmts) :
            blob.stmts[i].kind = "table" => SerialRewriteOk(blob, out, i)

\* a table whose two serial columns are id and a_id (one name a suffix of the
\* other) has been rewritten
C4_Witness ==
  /\ rpc = "serial"
  /\ \E i \in 1..Len(blob.stmts) :
       /\ blob.stmts[i].kind = "table"
       /\ Len(blob.stmts[i].cols) >= 2
       /\ blob.stmts[i].cols[1] = [name |-> <<"id">>, type |-> <<"serial">>]
       /\ blob.stmts[i].cols[2] = [name |-> <<"a_", "id">>, type |-> <<"serial">>]
  /\ Len(DropSemicolons(Statements(serialOut))) >= 3

\* C8: convert_postgres_to_duckdb applied to its own output changes nothing.
C8_ConvertIsIdempotent == rpc = "twice" => again = result

\* --------------------------------------------- the extractor on its own
CsvInit ==
  /\ cpc = "input"
  /\ dump \in DumpDescs
  /\ lines = RenderDump(dump)
  /\ headers \in {MonomerHeaders, TaxaHeaders}
  /\ csvOut = <<>>
  /\ RewriteIdle
  /\ RunIdle

ApplySqlToCsv ==
  /\ cpc = "input"
  /\ csvOut' = sql_to_csv(lines, headers)
  /\ cpc' = "written"
  /\ UNCHANGED <<rewriteVars, runVars, dump, lines, headers>>

CsvNext == ApplySqlToCsv

SpecCsv == CsvInit /\ [][CsvNext]_vars

\* ----------------------------------------------- claims on the extractor
ExpectedField(f) == IF f = NullField THEN <<>> ELSE f

ExpectedRows(d) ==
  [k \in 1..Len(d.rows) |->
     [j \in 1..Len(d.rows[k]) |-> ExpectedField(d.rows[k][j])]]

NoMarkerBefore(d) == \A k \in 1..Len(d.pre) : d.pre[k] # EndMarker

\* C6: for a dump whose data section lies between a COPY line and the first
\* line that is exactly \. the CSV holds the headers, then one row per data
\* line in order, with the line's tab-separated fields (same count, same
\* order, empty fields included) and \N replaced by the empty string.
C6_RowsAreTheTabSeparatedFields ==
  (cpc = "written" /\ dump.copy /\ dump.end /\ NoMarkerBefore(dump)) =>
    WrittenRows(csvOut) = <<headers>> \o ExpectedRows(dump)

\* C7: a dump with no line starting with COPY gives a CSV of the header row
\* only, whether or not it holds a \. line.
C7_NoCopyLineGivesHeaderOnly ==
  (cpc = "written" /\ ~dump.copy) => WrittenRows(csvOut) = <<headers>>

\* ---------------------------------------------------- claims on a run
CreateTableEffect(t) == <<"CREATE", " ", "TABLE", " ", "antismash", ".", t>>
CopyEffect(t) == <<"COPY", " ", "antismash", ".", t>>
CreateSequenceEffect(name) == <<"CREATE", " ", "SEQUENCE", " ">> \o name
GcViewEffect == <<"CREATE", " ", "VIEW", " ", "antismash", ".", "sequence_gc_content">>

\* C1: when a statement fails and its fallback fails too, the run ends with
\* exit code 1, the failed statement is the last one handed to the database,
\* nothing is executed after the exit, and no statement's effect is undone.
C1_FatalFailureEndsTheRun ==
  /\ [](lastError = "fallback" =>
          /\ pc = "exited"
          /\ exitCode = 1
          /\ executed # <<>>
          /\ executed[Len(executed)] = <<ti, num>>)
  /\ [][(pc = "exited" => executed' = executed) /\ db \subseteq db']_vars

\* a fallback failed in a later table, after statements of earlier tables
\* had succeeded
C1_Witness ==
  /\ lastError = "fallback"
  /\ pc = "exited"
  /\ ti > 2
  /\ Len(executed) > 2
  /\ CreateTableEffect(TABLES[1]) \in db

\* C2: if <name>.sql is absent, the run ends with exit code 1 after logging
\* an error, and no statement of that name or of a later name is executed.
C2_AbsentFileIsLoggedAndFatal ==
  absent # "none" =>
    /\ exitCode = 1
    /\ lastError = "nofile"
    /\ \A k \in 1..Len(executed) : executed[k][1] < IndexOf(absent)

\* C3: the connection is closed in every terminal state: after normal
\* completion, after a failed fallback, after a missing input file.
C3_ConnectionClosedOnEveryExit ==
  (pc = "done" \/ (pc = "exited" /\ lastError \in {"fallback", "nofile"})) =>
    conn = "closed"

\* the largest first-column id among the data rows of a CSV file
MaxFirstColumn(file) ==
  LET ids == {IntOf(WrittenRows(file)[k][1]) :
                k \in {j \in 2..Len(file) : IsInt(WrittenRows(file)[j][1])}}
  IN IF ids = {} THEN 0 ELSE CHOOSE m \in ids : \A n \in ids : n <= m

\* C5: the START value of each preload sequence is the largest first-column
\* id among the CSV's data rows plus 1, whatever the order of the rows.
C5_SequenceStartsAfterMaxId ==
  /\ monomer_start # 0 => monomer_start = MaxFirstColumn(monomer_csv) + 1
  /\ taxa_start # 0 => taxa_start = MaxFirstColumn(taxa_csv) + 1

\* the statements table t's source text holds, by what each is about
SourceStatementHeads(d, t) ==
  CASE t \in {"monomers", "taxa"} ->
         <<CreateSequenceEffect(IF t = "taxa" THEN TaxaSequence ELSE MonomerSequence),
           CreateTableEffect(t)>>
    [] t = "view_sequence_gc_content" -> <<GcViewEffect>>
    [] t = "preload_taxa" -> <<CopyEffect("taxa")>>
    [] t = "preload_monomers" -> <<CopyEffect("monomers")>>
    [] OTHER ->
         CASE FileKindOf(d, t) = 1 ->
                <<CreateTableEffect(t), <<"CREATE", " ", "INDEX", " ", "ON", " ", "antismash", ".", t>>>>
           [] FileKindOf(d, t) = 3 ->
                <<CreateTableEffect(t),
                  <<"CREATE", " ", "INDEX", " ", "ON", " ", "antismash", ".", t>>,
                  <<"COMMENT", " ", "ON", " ", "TABLE", " ", "antismash", ".", t>>>>
           [] OTHER -> <<CreateTableEffect(t)>>

HasSerialColumn(d, t) == t \notin ExceptionNames /\ FileHasSerial(FileKindOf(d, t))

\* C9: a source text of k statements, each ended by a semicolon and none with
\* a serial column, gives a statement list of exactly k entries, one per
\* statement in the original order, none empty and none equal to ";".
C9_OneEntryPerStatement ==
  (pc \in {"exec", "fallback"} /\ ~HasSerialColumn(dir, TABLES[ti])) =>
    LET heads == SourceStatementHeads(dir, TABLES[ti])
    IN /\ Len(statements) = Len(heads)
       /\ (TABLES[ti] \notin ExceptionNames =>
             Len(statements) = FileStatementCount(FileKindOf(dir, TABLES[ti])))
       /\ \A i \in 1..Len(statements) :
            /\ statements[i] # <<>>
            /\ statements[i] # <<";">>
            /\ EffectOf(statements[i]) = heads[i]

\* the third of three statements of a file is in execution
C9_Witness ==
  /\ pc = "exec"
  /\ TABLES[ti] \notin ExceptionNames
  /\ FileKindOf(dir, TABLES[ti]) = 3
  /\ Len(statements) = 3
  /\ num = 3

Precedes(a, b) == a[1] < b[1] \/ (a[1] = b[1] /\ a[2] < b[2])

\* what must be in the database when statement st executes
Prerequisites(st) ==
  {CreateSequenceEffect(name) : name \in NextvalNames(st)}
    \cup (IF EffectOf(st) = CreateTableEffect("monomers")
          THEN {CreateTableEffect("substrates")} ELSE {})
    \cup (IF EffectOf(st) = CopyEffect("taxa") THEN {CreateTableEffect("taxa")} ELSE {})
    \cup (IF EffectOf(st) = CopyEffect("monomers")
          THEN {CreateTableEffect("monomers")} ELSE {})
    \cup (IF EffectOf(st) = GcViewEffect
          THEN {CreateTableEffect("dna_sequences")} ELSE {})

\* C10: statements execute in the order of the table list and, within a
\* table, in block order; so when a statement executes, the sequences its
\* column defaults use exist, substrates exists before monomers, taxa and
\* monomers exist before their COPY, dna_sequences before the GC view.
C10_DependencyOrder ==
  /\ \A k \in 2..Len(executed) : Precedes(executed[k - 1], executed[k])
  /\ pc \in {"exec", "fallback"} => Prerequisites(statements[num]) \subseteq db

\* CREATE TABLE antismash.monomers is in execution, after an earlier
\* statement had to be recovered by the fallback
C10_Witness ==
  /\ pc = "exec"
  /\ EffectOf(statements[num]) = CreateTableEffect("monomers")
  /\ CreateTableEffect("substrates") \in db
  /\ lastError = "exec"

\* no statement is handed whole to conn.execute twice, and the fragments in
\* execution are those of the statement that just failed whole, none of them
\* handed to conn.execute before
AttemptedAtMostOnce ==
  /\ \A k \in 2..Len(executed) : Precedes(executed[k - 1], executed[k])
  /\ pc = "fallback" =>
       /\ executed # <<>>
       /\ executed[Len(executed)] = <<ti, num>>
       /\ frag \in 1..Len(Fragments)
       /\ attempted = 1..(frag - 1)

\* the loop stops in a fallback only at a fragment that raised; otherwise the
\* statement in execution is the one right after the last statement executed
RecoveredRunProceeds ==
  /\ (pc = "exited" /\ lastError = "fallback") =>
       frag \in attempted /\ frag \in 1..Len(Fragments)
  /\ (pc = "exec" /\ num > 1) =>
       executed # <<>> /\ executed[Len(executed)] = <<ti, num - 1>>
  /\ (pc = "exec" /\ num = 1 /\ executed # <<>>) =>
       executed[Len(executed)][1] < ti

\* a run that ended with no fragment having raised and no file missing (the
\* input files and the database file named on the command line) ended with
\* exit code 0, every entry of the table list processed
UnfailedRunExitsZero ==
  (pc \in {"done", "exited"} /\ lastError # "fallback" /\ absent = "none"
     /\ uncaught # "AssertionError") =>
    /\ exitCode = 0
    /\ ti > Len(TABLES)
    /\ outFiles = {TABLES[i] : i \in 1..Len(TABLES)}

\* C11: a statement is attempted at most once whole and at most once as
\* fragments; when every fragment executes the run goes on to the next
\* statement; and a run in which every failure was recovered so and no input
\* file is missing ends with exit code 0 after every entry of the table list.
C11_FailureRecoverableOnce ==
  /\ AttemptedAtMostOnce
  /\ RecoveredRunProceeds
  /\ UnfailedRunExitsZero

====
